---- MODULE Spec2Model ----
(***************************************************************************)
(* Generic Medicine Finder: the HTTP facade (server.js), the orchestrator  *)
(* entry point main() and the seven tools of med_tool.js, modelled as a    *)
(* state machine.  Every await of the source is a step boundary; the code  *)
(* between two awaits runs atomically, as on the JavaScript event loop.    *)
(***************************************************************************)
EXTENDS Integers, Sequences, FiniteSets, TLC

\* ------------------------------------------------------------------ bounds
MaxTurns == 2          \* orchestrator turns explored per request
MaxSearchGroups == 3   \* concept groups in a name-search response
MaxSearchProps == 2    \* concepts per group in a name-search response
MaxRelatedGroups == 2  \* concept groups in an allrelated response
MaxRelatedProps == 6   \* concepts per group in an allrelated response
MaxChunks == 7         \* grounding chunks in a grounding response
MaxEquivalentGroups == 2 \* concept groups in a name-search response of find_generic_equivalent

\* ------------------------------------------------------- program constants
SourceCap == 5         \* .slice(0, 5) of the cited sources
BrandCap == 5          \* .slice(0, 5) of the brand names
ResultCap == 10        \* results.slice(0, 10) of search_medicine

\* ------------------------------------------------------------ JS values
Null == [null |-> TRUE]

Min(a, b) == IF a < b THEN a ELSE b

\* Array.prototype.slice(0, n)
Slice(s, n) == SubSeq(s, 1, Min(n, Len(s)))

\* Array.prototype.map
Map(s, F(_)) == [i \in 1..Len(s) |-> F(s[i])]

\* array[0]: undefined (modelled as Null) on an empty array
First(s) == IF Len(s) = 0 THEN Null ELSE s[1]

OrElseSwapped(a, b) == IF b # Null THEN b ELSE a

\* a || b on object values
OrElse(a, b) == IF a # Null THEN a ELSE b

\* --------------------------------------------------- vocabulary service data
TTYs == {"IN", "SCD", "SBD", "BN", "DF"}

\* The i-th concept of type t known to the vocabulary service.
Concept(t, i) == [rxcui |-> [id |-> t, no |-> i], name |-> [text |-> t, no |-> i]]

\* the empty string as a concept name
EmptyName == [text |-> "", no |-> 0]

\* A concept of type t that the vocabulary service lists with an empty name.
Nameless(t) == [rxcui |-> [id |-> t, no |-> 0], name |-> EmptyName]

\* conceptProperties holding concepts from+1 .. from+n of type t
Run(t, from, n) == [k \in 1..n |-> Concept(t, from + k)]

\* A concept group; hasProps = FALSE models a group without conceptProperties.
Group(t, hasProps, props) == [tty |-> t, hasProps |-> hasProps, conceptProperties |-> props]

\* An axios outcome: kind "error" is a rejected promise (timeout, non-2xx,
\* network), "nodata" a response without a body, "nogroup" a body without a
\* conceptGroup, "groups" a body carrying a conceptGroup array.
VocabError(m) == [kind |-> "error", message |-> m, conceptGroup |-> <<>>]
VocabNoData == [kind |-> "nodata", message |-> "", conceptGroup |-> <<>>]
VocabNoGroup == [kind |-> "nogroup", message |-> "", conceptGroup |-> <<>>]
VocabGroups(gs) == [kind |-> "groups", message |-> "", conceptGroup |-> gs]

\* All sequences over S of length 0..n
SeqsUpTo(S, n) == UNION {[1..k -> S] : k \in 0..n}

\* Groups of the types T whose conceptProperties is missing, empty, or a run
\* of n concepts starting after offset o.
GroupsOver(T, Offsets, Counts) ==
  {Group(t, FALSE, <<>>) : t \in T}
    \cup {Group(t, TRUE, Run(t, o, n)) : t \in T, o \in Offsets, n \in Counts}

\* ---------------------------------------------------- grounding service data
Chunk(i, web) ==
  [web |-> IF web THEN [title |-> [title |-> i], uri |-> [uri |-> i]] ELSE Null]

\* chunk lists: position i carries title/uri i, with or without a web field
ChunkLists(n) ==
  UNION {{[i \in 1..k |-> Chunk(i, f[i])] : f \in [1..k -> BOOLEAN]} : k \in 0..n}

GroundError(m) == [kind |-> "error", message |-> m, text |-> "", metadata |-> Null]
GroundOk(text, meta) == [kind |-> "ok", message |-> "", text |-> text, metadata |-> meta]

\* providerMetadata.google.groundingMetadata
Metadata(hasChunks, chunks, hasQueries, queries) ==
  [hasChunks |-> hasChunks, groundingChunks |-> chunks,
   hasQueries |-> hasQueries, webSearchQueries |-> queries]

\* ------------------------------------------------ find_generic_with_prices
\* The scan of the name-search response (first group of each type wins).
RECURSIVE ScanSearch(_, _)
ScanSearch(groups, acc) ==
  IF groups = <<>> THEN acc
  ELSE LET group == Head(groups) IN
       IF ~group.hasProps THEN ScanSearch(Tail(groups), acc)
       ELSE ScanSearch(Tail(groups),
              [genericDrug |-> IF group.tty = "SCD" /\ acc.genericDrug = Null
                               THEN First(group.conceptProperties) ELSE acc.genericDrug,
               brandedDrug |-> IF group.tty = "SBD" /\ acc.brandedDrug = Null
                               THEN First(group.conceptProperties) ELSE acc.brandedDrug,
               ingredient  |-> IF group.tty = "IN" /\ acc.ingredient = Null
                               THEN First(group.conceptProperties) ELSE acc.ingredient])

NoDrugs == [genericDrug |-> Null, brandedDrug |-> Null, ingredient |-> Null]

\* const apiResult = {...}
EmptyApiResult ==
  [genericName |-> Null, brandNames |-> <<>>, activeIngredient |-> Null, dosageForm |-> Null]

ConceptNameOf(p) == p.name

BrandNamesUncapped(props) == Map(props, ConceptNameOf)

\* group.conceptProperties.slice(0, 5).map(p => p.name)
BrandNamesOf(props) == Map(Slice(props, BrandCap), ConceptNameOf)

\* The scan of the allrelated response.  conceptProperties[0].name throws a
\* TypeError on an empty array; threw = TRUE abandons apiResult.
RECURSIVE ScanRelated(_, _)
ScanRelated(groups, apiResult) ==
  IF groups = <<>> THEN [threw |-> FALSE, apiResult |-> apiResult]
  ELSE LET group == Head(groups)
           props == group.conceptProperties IN
       IF ~group.hasProps THEN ScanRelated(Tail(groups), apiResult)
       ELSE IF group.tty \in {"IN", "SCD", "DF"} /\ Len(props) = 0
            THEN [threw |-> TRUE, apiResult |-> apiResult]
       ELSE ScanRelated(Tail(groups),
              [genericName |-> IF group.tty = "SCD" THEN props[1].name
                               ELSE apiResult.genericName,
               brandNames |-> IF group.tty = "BN" THEN BrandNamesOf(props)
                              ELSE apiResult.brandNames,
               activeIngredient |-> IF group.tty = "IN" THEN props[1].name
                                    ELSE apiResult.activeIngredient,
               dosageForm |-> IF group.tty = "DF" THEN props[1].name
                              ELSE apiResult.dosageForm])

HasWeb(chunk) == chunk.web # Null
SourceOf(chunk) == [title |-> chunk.web.title, url |-> chunk.web.uri]

ExtractSourcesCapFirst(metadata) ==
  IF metadata # Null /\ metadata.hasChunks
  THEN Map(SelectSeq(Slice(metadata.groundingChunks, SourceCap), HasWeb), SourceOf)
  ELSE <<>>

\* groundingChunks.filter(chunk => chunk.web).slice(0, 5).map(...)
ExtractSources(metadata) ==
  IF metadata # Null /\ metadata.hasChunks
  THEN Map(Slice(SelectSeq(metadata.groundingChunks, HasWeb), SourceCap), SourceOf)
  ELSE <<>>

\* groundingChunks.filter(chunk => chunk.web).map(...) of web_search_medicine
ExtractSourcesInfo(metadata) ==
  IF metadata # Null /\ metadata.hasChunks
  THEN Map(SelectSeq(metadata.groundingChunks, HasWeb), SourceOf)
  ELSE <<>>

\* groundingMetadata?.webSearchQueries || []
SearchQueriesOf(metadata) ==
  IF metadata # Null /\ metadata.hasQueries THEN metadata.webSearchQueries ELSE <<>>

\* result.indianPrices after the grounding call settled (lines 468-499)
IndianPricesOf(g) ==
  IF g.kind = "error" THEN [error |-> g.message]
  ELSE [data |-> g.text, sources |-> ExtractSources(g.metadata),
        searchQueries |-> SearchQueriesOf(g.metadata)]

Tip == "Jan Aushadhi Kendras offer the cheapest generic medicines."

\* return JSON.stringify({...}) of find_generic_with_prices
CombinedFinding(medicineName, result) ==
  [success |-> TRUE, medicine |-> medicineName, apiData |-> result.apiData,
   indianPrices |-> result.indianPrices, tip |-> Tip]

\* The tool's locals when execute starts and the name-search is issued
\* (lines 377-390).
FgpStart(medicineName) ==
  [name |-> "find_generic_with_prices", pc |-> "awaitSearch",
   medicineName |-> medicineName,
   result |-> [query |-> medicineName, apiData |-> Null, indianPrices |-> Null,
               error |-> Null],
   searchResponse |-> Null, relatedResponse |-> Null, groundResponse |-> Null,
   drugs |-> NoDrugs, targetRxcui |-> Null, prompt |-> Null,
   calls |-> <<"search">>, ret |-> Null]

\* as if the fallback were ??, which keeps an empty string
SaltNameNullish(t) ==
  IF t.result.apiData # Null /\ t.result.apiData.activeIngredient # Null
  THEN [from |-> "activeIngredient", value |-> t.result.apiData.activeIngredient]
  ELSE [from |-> "medicineName", value |-> [text |-> t.medicineName, no |-> 0]]

\* result.apiData?.activeIngredient || medicineName: null and "" are falsy
SaltNameOf(t) ==
  IF /\ t.result.apiData # Null
     /\ t.result.apiData.activeIngredient # Null
     /\ t.result.apiData.activeIngredient # EmptyName
  THEN [from |-> "activeIngredient", value |-> t.result.apiData.activeIngredient]
  ELSE [from |-> "medicineName", value |-> [text |-> t.medicineName, no |-> 0]]

\* STEP 2 up to the await of generateText (lines 450-474)
FgpStep2(t) ==
  [t EXCEPT !.pc = "awaitGround",
            !.prompt = [medicineName |-> t.medicineName, saltName |-> SaltNameOf(t)],
            !.calls = Append(@, "ground")]

FgpCatchApiErrorReturn(t) ==
  [t EXCEPT !.pc = "returned", !.ret = [success |-> TRUE, medicine |-> t.medicineName,
                                        apiData |-> t.result.apiData,
                                        indianPrices |-> t.result.indianPrices]]

\* catch (apiError) of STEP 1 (lines 446-448): log, then fall through to STEP 2
FgpCatchApiError(t) == FgpStep2(t)

\* The name-search settled (lines 390-415).
FgpOnSearch(t, resp) ==
  LET t1 == [t EXCEPT !.searchResponse = resp] IN
  IF resp.kind \in {"error", "nodata"} THEN FgpCatchApiError(t1)
  ELSE IF resp.kind = "nogroup" THEN FgpStep2(t1)
  ELSE LET d == ScanSearch(resp.conceptGroup, NoDrugs)
           target == OrElse(d.genericDrug, d.brandedDrug) IN
       IF target # Null
       THEN [t1 EXCEPT !.drugs = d, !.targetRxcui = target.rxcui,
                       !.pc = "awaitRelated", !.calls = Append(@, "related")]
       ELSE FgpStep2([t1 EXCEPT !.drugs = d])

\* as if apiResult were published to result.apiData while it is being filled
FgpOnRelatedPartial(t, resp) ==
  LET t1 == [t EXCEPT !.relatedResponse = resp] IN
  IF resp.kind \in {"error", "nodata"} THEN FgpCatchApiError(t1)
  ELSE IF resp.kind = "nogroup" THEN FgpStep2(t1)
  ELSE LET scan == ScanRelated(resp.conceptGroup, EmptyApiResult) IN
       IF scan.threw THEN FgpCatchApiError([t1 EXCEPT !.result.apiData = scan.apiResult])
       ELSE FgpStep2([t1 EXCEPT !.result.apiData = scan.apiResult])

\* The allrelated request settled (lines 415-448).
FgpOnRelated(t, resp) ==
  LET t1 == [t EXCEPT !.relatedResponse = resp] IN
  IF resp.kind \in {"error", "nodata"} THEN FgpCatchApiError(t1)
  ELSE IF resp.kind = "nogroup" THEN FgpStep2(t1)
  ELSE LET scan == ScanRelated(resp.conceptGroup, EmptyApiResult) IN
       IF scan.threw THEN FgpCatchApiError(t1)
       ELSE FgpStep2([t1 EXCEPT !.result.apiData = scan.apiResult])

\* The final return (lines 501-507)
FgpReturn(t) == [t EXCEPT !.pc = "returned", !.ret = CombinedFinding(t.medicineName, t.result)]

FgpCatchSearchErrorNoField(t, g) == FgpReturn(t)

\* catch (searchError) of STEP 2 (lines 496-499)
FgpCatchSearchError(t, g) == FgpReturn([t EXCEPT !.result.indianPrices = IndianPricesOf(g)])

\* The grounding call settled (lines 468-507).
FgpOnGround(t, g) ==
  LET t1 == [t EXCEPT !.groundResponse = g] IN
  IF g.kind = "error" THEN FgpCatchSearchError(t1, g)
  ELSE FgpReturn([t1 EXCEPT !.result.indianPrices = IndianPricesOf(g)])

\* ------------------------------------------------------- the granular tools
CatchToolErrorRethrow(t, message) == [t EXCEPT !.pc = "threw"]

\* catch (error) { return JSON.stringify({success: false, error: error.message}) }
CatchToolError(t, message) ==
  [t EXCEPT !.pc = "returned", !.ret = [success |-> FALSE, error |-> message]]

\* error.message of the exception a settled vocabulary call raises
ErrorMessageOf(resp) ==
  IF resp.kind = "error" THEN resp.message
  ELSE "Cannot read properties of undefined"

ToolReturn(t, value) == [t EXCEPT !.pc = "returned", !.ret = value]

\* getTypeDescription (lines 356-368)
GetTypeDescription(tty) ==
  CASE tty = "SCD" -> "Generic Drug (Recommended - Same quality, lower cost)"
    [] tty = "SBD" -> "Branded Drug (More expensive)"
    [] tty = "BN" -> "Brand Name"
    [] tty = "IN" -> "Active Ingredient"
    [] tty = "MIN" -> "Multiple Ingredients"
    [] tty = "DF" -> "Dosage Form"
    [] tty = "SCDC" -> "Generic Drug Component"
    [] tty = "SBDC" -> "Branded Drug Component"
    [] OTHER -> tty

\* search_medicine: the results array (lines 95-107)
RECURSIVE SearchResults(_)
SearchResults(groups) ==
  IF groups = <<>> THEN <<>>
  ELSE LET group == Head(groups) IN
       (IF group.hasProps
        THEN [i \in 1..Len(group.conceptProperties) |->
                [rxcui |-> group.conceptProperties[i].rxcui,
                 name |-> group.conceptProperties[i].name,
                 type |-> group.tty,
                 typeDescription |-> GetTypeDescription(group.tty)]]
        ELSE <<>>) \o SearchResults(Tail(groups))

EmptySuggestion == ""

Suggestion ==
  "Common generic names: Paracetamol=Acetaminophen, Ibuprofen, Aspirin, Metformin, Omeprazole"

\* search_medicine.execute up to the await (lines 79-85)
SearchMedicineStart(medicineName) ==
  [name |-> "search_medicine", pc |-> "awaitSearch", medicineName |-> medicineName,
   searchResponse |-> Null, calls |-> <<"search">>, ret |-> Null]

\* search_medicine.execute after the await (lines 85-120)
SearchMedicineOnSearch(t, resp) ==
  LET t1 == [t EXCEPT !.searchResponse = resp] IN
  IF resp.kind \in {"error", "nodata"} THEN CatchToolError(t1, ErrorMessageOf(resp))
  ELSE IF resp.kind = "nogroup"
  THEN ToolReturn(t1, [success |-> FALSE, message |-> "Could not find medicine",
                       suggestion |-> Suggestion])
  ELSE LET results == SearchResults(resp.conceptGroup) IN
       ToolReturn(t1, [success |-> TRUE, searchTerm |-> t.medicineName,
                       results |-> Slice(results, ResultCap),
                       totalFound |-> Len(results)])

\* get_medicine_details: const result = {...} (lines 145-152)
EmptyDetails(rxcui) ==
  [rxcui |-> rxcui, ingredient |-> Null, genericDrug |-> Null, brandNames |-> <<>>,
   brandedDrugs |-> <<>>, dosageForm |-> Null]

NameAndRxcui(p) == [name |-> p.name, rxcui |-> p.rxcui]
GenericEntry(p) == [name |-> p.name, rxcui |-> p.rxcui, type |-> "GENERIC"]
BrandedEntry(p) == [name |-> p.name, rxcui |-> p.rxcui, type |-> "BRANDED"]
ListOf(items) == [items |-> items]

\* get_medicine_details: the switch over the groups (lines 154-188)
RECURSIVE ScanDetails(_, _)
ScanDetails(groups, result) ==
  IF groups = <<>> THEN result
  ELSE LET group == Head(groups)
           props == group.conceptProperties IN
       IF ~group.hasProps THEN ScanDetails(Tail(groups), result)
       ELSE ScanDetails(Tail(groups),
              CASE group.tty = "IN" ->
                     [result EXCEPT !.ingredient = ListOf(Map(props, NameAndRxcui))]
                [] group.tty = "SCD" ->
                     [result EXCEPT !.genericDrug = ListOf(Map(props, GenericEntry))]
                [] group.tty = "BN" ->
                     [result EXCEPT !.brandNames = Map(props, NameAndRxcui)]
                [] group.tty = "SBD" ->
                     [result EXCEPT !.brandedDrugs = Map(props, BrandedEntry)]
                [] group.tty = "DF" ->
                     [result EXCEPT !.dosageForm = ListOf(Map(props, ConceptNameOf))]
                [] OTHER -> result)

\* get_medicine_details.execute up to the await (lines 131-136)
DetailsStart(rxcui) ==
  [name |-> "get_medicine_details", pc |-> "awaitRelated", rxcui |-> rxcui,
   relatedResponse |-> Null, calls |-> <<"related">>, ret |-> Null]

\* get_medicine_details.execute after the await (lines 136-200)
DetailsOnRelated(t, resp) ==
  LET t1 == [t EXCEPT !.relatedResponse = resp] IN
  IF resp.kind \in {"error", "nodata"} THEN CatchToolError(t1, ErrorMessageOf(resp))
  ELSE IF resp.kind = "nogroup"
  THEN ToolReturn(t1, [success |-> FALSE,
                       message |-> "Could not find detailed information for this medicine."])
  ELSE ToolReturn(t1, [success |-> TRUE,
                       data |-> ScanDetails(resp.conceptGroup, EmptyDetails(t.rxcui)),
                       recommendation |-> "The GENERIC option (SCD type) costs much less."])

\* find_generic_equivalent: the loop that picks the target (lines 227-236);
\* conceptProperties[0].rxcui throws a TypeError on an empty array.
RECURSIVE FindTarget(_)
FindTarget(groups) ==
  IF groups = <<>> THEN [threw |-> FALSE, target |-> Null]
  ELSE LET group == Head(groups) IN
       IF group.hasProps /\ group.tty \in {"SCD", "SBD"}
       THEN IF Len(group.conceptProperties) = 0
            THEN [threw |-> TRUE, target |-> Null]
            ELSE [threw |-> FALSE, target |-> group.conceptProperties[1]]
       ELSE FindTarget(Tail(groups))

\* find_generic_equivalent: const result = {...} (lines 249-256)
EmptyEquivalent(brandName, targetName) ==
  [searchedFor |-> brandName, identifiedAs |-> targetName, activeIngredient |-> Null,
   genericVersion |-> Null, brandedVersions |-> <<>>, recommendation |-> Null]

\* find_generic_equivalent: the scan of the related groups (lines 258-278)
RECURSIVE ScanEquivalent(_, _)
ScanEquivalent(groups, result) ==
  IF groups = <<>> THEN result
  ELSE LET group == Head(groups)
           props == group.conceptProperties IN
       IF ~group.hasProps THEN ScanEquivalent(Tail(groups), result)
       ELSE ScanEquivalent(Tail(groups),
              [result EXCEPT
                 !.activeIngredient = IF group.tty = "IN"
                                      THEN ListOf(Map(props, ConceptNameOf)) ELSE @,
                 !.genericVersion = IF group.tty = "SCD"
                                    THEN ListOf(Map(props, NameAndRxcui)) ELSE @,
                 !.brandedVersions = IF group.tty = "SBD"
                                     THEN Map(props, NameAndRxcui) ELSE @])

\* find_generic_equivalent: the recommendation (lines 280-288)
WithRecommendation(result) ==
  IF result.genericVersion # Null /\ Len(result.genericVersion.items) > 0
  THEN [result EXCEPT !.recommendation =
          [buyThis |-> result.genericVersion.items[1].name,
           activeIngredient |-> result.activeIngredient,
           avoidTheseBrands |-> Map(result.brandedVersions, ConceptNameOf)]]
  ELSE result

\* find_generic_equivalent.execute up to the first await (lines 211-217)
EquivalentStart(brandName) ==
  [name |-> "find_generic_equivalent", pc |-> "awaitSearch", brandName |-> brandName,
   searchResponse |-> Null, relatedResponse |-> Null, target |-> Null,
   calls |-> <<"search">>, ret |-> Null]

\* find_generic_equivalent.execute between the awaits (lines 217-247)
EquivalentOnSearch(t, resp) ==
  LET t1 == [t EXCEPT !.searchResponse = resp] IN
  IF resp.kind \in {"error", "nodata"} THEN CatchToolError(t1, ErrorMessageOf(resp))
  ELSE IF resp.kind = "nogroup"
  THEN ToolReturn(t1, [success |-> FALSE, message |-> "Could not find the brand name"])
  ELSE LET f == FindTarget(resp.conceptGroup) IN
       IF f.threw THEN CatchToolError(t1, "Cannot read properties of undefined")
       ELSE IF f.target = Null
       THEN ToolReturn(t1, [success |-> FALSE,
                            message |-> "Could not identify a specific drug formulation."])
       ELSE [t1 EXCEPT !.target = f.target, !.pc = "awaitRelated",
                       !.calls = Append(@, "related")]

\* find_generic_equivalent.execute after the second await (lines 247-299)
EquivalentOnRelated(t, resp) ==
  LET t1 == [t EXCEPT !.relatedResponse = resp]
      empty == EmptyEquivalent(t.brandName, t.target.name) IN
  IF resp.kind \in {"error", "nodata"} THEN CatchToolError(t1, ErrorMessageOf(resp))
  ELSE ToolReturn(t1,
         [success |-> TRUE,
          data |-> WithRecommendation(
                     IF resp.kind = "groups"
                     THEN ScanEquivalent(resp.conceptGroup, empty) ELSE empty)])

\* drug.name.includes(' / '): the even-numbered concepts stand for combinations
IsCombination(name) == name.no % 2 = 0

IsSingleIngredient(p) == ~IsCombination(p.name)

\* get_available_dosages: the genericDosages array (lines 324-338)
RECURSIVE GenericDosages(_)
GenericDosages(groups) ==
  IF groups = <<>> THEN <<>>
  ELSE LET group == Head(groups) IN
       (IF group.tty = "SCD" /\ group.hasProps
        THEN Map(SelectSeq(group.conceptProperties, IsSingleIngredient), NameAndRxcui)
        ELSE <<>>) \o GenericDosages(Tail(groups))

\* get_available_dosages.execute up to the await (lines 310-315)
DosagesStart(ingredientName) ==
  [name |-> "get_available_dosages", pc |-> "awaitSearch",
   ingredientName |-> ingredientName, searchResponse |-> Null,
   calls |-> <<"search">>, ret |-> Null]

\* get_available_dosages.execute after the await (lines 315-351)
DosagesOnSearch(t, resp) ==
  LET t1 == [t EXCEPT !.searchResponse = resp] IN
  IF resp.kind \in {"error", "nodata"} THEN CatchToolError(t1, ErrorMessageOf(resp))
  ELSE IF resp.kind = "nogroup"
  THEN ToolReturn(t1, [success |-> FALSE, message |-> "Could not find dosages"])
  ELSE ToolReturn(t1, [success |-> TRUE, ingredient |-> t.ingredientName,
                       availableGenericFormulations |-> GenericDosages(resp.conceptGroup),
                       note |-> "These are pure generic formulations."])

\* web_search_medicine.execute up to the await (lines 518-535)
WebSearchStart(searchQuery) ==
  [name |-> "web_search_medicine", pc |-> "awaitGround", searchQuery |-> searchQuery,
   groundResponse |-> Null, calls |-> <<"ground">>, ret |-> Null]

\* web_search_medicine.execute after the await (lines 535-566)
WebSearchOnGround(t, g) ==
  LET t1 == [t EXCEPT !.groundResponse = g] IN
  IF g.kind = "error"
  THEN ToolReturn(t1, [success |-> FALSE, error |-> g.message,
                       suggestion |-> "Try rephrasing your search query."])
  ELSE ToolReturn(t1, [success |-> TRUE, searchQuery |-> t.searchQuery, result |-> g.text,
                       sources |-> ExtractSourcesInfo(g.metadata),
                       searchQueries |-> SearchQueriesOf(g.metadata)])

\* search_india_medicine.execute up to the await (lines 577-597)
IndiaSearchStart(medicineName) ==
  [name |-> "search_india_medicine", pc |-> "awaitGround", medicineName |-> medicineName,
   groundResponse |-> Null, calls |-> <<"ground">>, ret |-> Null]

\* search_india_medicine.execute after the await (lines 597-627)
IndiaSearchOnGround(t, g) ==
  LET t1 == [t EXCEPT !.groundResponse = g] IN
  IF g.kind = "error" THEN CatchToolError(t1, g.message)
  ELSE ToolReturn(t1, [success |-> TRUE, medicine |-> t.medicineName, country |-> "India",
                       result |-> g.text, sources |-> ExtractSources(g.metadata),
                       tip |-> Tip])

\* ------------------------------------------------------------ state machine
\* requests: per request, the position of the /api/search handler and what it
\*           sent; runs: the orchestrator run started by main(); tools: the
\*           tool execution in progress; outbound: the outbound calls made
\*           while serving the request and the dependencies that failed.
VARIABLES requests, runs, tools, outbound
vars == <<requests, runs, tools, outbound>>

AllRequests == {"r1", "r2"}

Queries == {"Lipitor 20mg", "Crocin"}
MedicineNames == {"Lipitor 20mg"}
FinalOutputs == {"structured JSON", "free text"}

\* req.body after express.json(): the query may be absent, empty or a text
Bodies ==
  {[hasQuery |-> FALSE, query |-> ""], [hasQuery |-> TRUE, query |-> ""]}
    \cup {[hasQuery |-> TRUE, query |-> q] : q \in Queries}

IsFalsyMissingOnly(body) == ~body.hasQuery

\* !query (server.js line 26)
IsFalsy(body) == ~body.hasQuery \/ body.query = ""

\* main(query = ""): the argument main sees
QueryArg(body) == IF body.hasQuery THEN body.query ELSE ""

\* if (!query) { ...; return; } of main (lines 650-653)
MainReturnsEarly(query) == query = ""

NoCalls == [run |-> 0, llm |-> 0, vocab |-> 0, ground |-> 0, failed |-> {}]
IdleRun == [pc |-> "idle", turns |-> 0, finalOutput |-> ""]

Init ==
  /\ requests = [r \in AllRequests |-> [pc |-> "none", body |-> Null, response |-> Null, sent |-> 0]]
  /\ runs = [r \in AllRequests |-> IdleRun]
  /\ tools = [r \in AllRequests |-> Null]
  /\ outbound = [r \in AllRequests |-> NoCalls]

\* res.status(400).json({error: "Query is required"}) (line 27)
BadRequest == [status |-> 400, body |-> [error |-> "Query is required"]]

\* res.json({success: true, result}) with result undefined
OkUndefined == [status |-> 200, body |-> [success |-> TRUE]]

OkDroppingResult(result) == OkUndefined

\* res.json({success: true, result}) (line 37)
Ok(result) == [status |-> 200, body |-> [success |-> TRUE, result |-> result]]

\* res.status(500).json({...}) (lines 40-43)
InternalErrorAsOk ==
  [status |-> 200,
   body |-> [success |-> FALSE, error |-> "Failed to process your request. Please try again."]]

InternalError ==
  [status |-> 500,
   body |-> [success |-> FALSE, error |-> "Failed to process your request. Please try again."]]

Send(req, response) ==
  [req EXCEPT !.pc = "responded", !.response = response, !.sent = @ + 1]

\* The handler up to its first await (server.js lines 22-33, main lines 649-660):
\* a falsy query is answered at once, any other starts one orchestrator run.
Receive(r, body) ==
  /\ requests[r].pc = "none"
  /\ IF IsFalsy(body)
     THEN /\ requests' = [requests EXCEPT ![r] = Send([@ EXCEPT !.body = body], BadRequest)]
          /\ UNCHANGED <<runs, outbound>>
     ELSE IF MainReturnsEarly(QueryArg(body))
     THEN /\ requests' = [requests EXCEPT ![r] = Send([@ EXCEPT !.body = body], OkUndefined)]
          /\ UNCHANGED <<runs, outbound>>
     ELSE /\ requests' = [requests EXCEPT ![r] = [@ EXCEPT !.pc = "awaitMain", !.body = body]]
          /\ runs' = [runs EXCEPT ![r] = [@ EXCEPT !.pc = "thinking"]]
          /\ outbound' = [outbound EXCEPT ![r].run = @ + 1]
  /\ UNCHANGED tools

\* The calls a tool step issued: the suffix of t.calls not yet counted.
Count(calls, label) == Cardinality({i \in DOMAIN calls : calls[i] = label})

Issue(out, before, after) ==
  [out EXCEPT !.vocab = @ + Count(after, "search") + Count(after, "related")
                          - Count(before, "search") - Count(before, "related"),
              !.ground = @ + Count(after, "ground") - Count(before, "ground")]

\* The orchestrator is ready to ask its reasoning backend for the next step.
AgentReady(r) ==
  /\ requests[r].pc = "awaitMain"
  /\ \/ runs[r].pc = "thinking"
     \/ runs[r].pc = "tool" /\ tools[r].pc = "returned"

\* run(agent, query): the backend asks for a tool; its execute runs up to
\* its first await.
AgentCallsTool(r, t0) ==
  /\ AgentReady(r)
  /\ runs[r].turns < MaxTurns
  /\ runs' = [runs EXCEPT ![r] = [@ EXCEPT !.pc = "tool", !.turns = @ + 1]]
  /\ tools' = [tools EXCEPT ![r] = t0]
  /\ outbound' = [outbound EXCEPT ![r] = Issue([@ EXCEPT !.llm = @ + 1], <<>>, t0.calls)]
  /\ UNCHANGED requests

\* run(agent, query) resolves with result.finalOutput (lines 660-667)
AgentFinishes(r, out) ==
  /\ AgentReady(r)
  /\ runs' = [runs EXCEPT ![r] = [@ EXCEPT !.pc = "returned", !.finalOutput = out]]
  /\ outbound' = [outbound EXCEPT ![r].llm = @ + 1]
  /\ UNCHANGED <<requests, tools>>

\* run(agent, query) rejects: the reasoning backend failed (line 660)
AgentFails(r) ==
  /\ AgentReady(r)
  /\ runs' = [runs EXCEPT ![r] = [@ EXCEPT !.pc = "threw"]]
  /\ outbound' = [outbound EXCEPT ![r] = [@ EXCEPT !.llm = @ + 1, !.failed = @ \cup {"llm"}]]
  /\ UNCHANGED <<requests, tools>>

\* await main(query) resolved (server.js lines 33-37)
Respond200(r) ==
  /\ requests[r].pc = "awaitMain"
  /\ runs[r].pc = "returned"
  /\ requests' = [requests EXCEPT ![r] = Send(@, Ok(runs[r].finalOutput))]
  /\ UNCHANGED <<runs, tools, outbound>>

\* await main(query) rejected (server.js lines 38-44)
Respond500(r) ==
  /\ requests[r].pc = "awaitMain"
  /\ runs[r].pc = "threw"
  /\ requests' = [requests EXCEPT ![r] = Send(@, InternalError)]
  /\ UNCHANGED <<runs, tools, outbound>>

\* A tool of request r is suspended at the await named pc.
ToolAt(r, name, pc) ==
  /\ runs[r].pc = "tool"
  /\ tools[r].name = name
  /\ tools[r].pc = pc

\* A settled outbound call failed: rejected, or answered without a body.
FailedDeps(resp, dep) == IF resp.kind \in {"error", "nodata"} THEN {dep} ELSE {}

\* as if `result` were one module-level object written by every execution
ToolStepSharedResult(r, t2, resp, dep) ==
  /\ tools' = [q \in AllRequests |->
                 IF q = r THEN t2
                 ELSE IF tools[q] # Null /\ "result" \in DOMAIN tools[q]
                         /\ "result" \in DOMAIN t2
                      THEN [tools[q] EXCEPT !.result = t2.result]
                      ELSE tools[q]]
  /\ outbound' = [outbound EXCEPT ![r] =
                    Issue([@ EXCEPT !.failed = @ \cup FailedDeps(resp, dep)],
                          tools[r].calls, t2.calls)]
  /\ UNCHANGED <<requests, runs>>

\* The continuation of the suspended tool ran up to its next await or return.
ToolStep(r, t2, resp, dep) ==
  /\ tools' = [tools EXCEPT ![r] = t2]
  /\ outbound' = [outbound EXCEPT ![r] =
                    Issue([@ EXCEPT !.failed = @ \cup FailedDeps(resp, dep)],
                          tools[r].calls, t2.calls)]
  /\ UNCHANGED <<requests, runs>>

FgpSearchReturns(r, Responses) ==
  /\ ToolAt(r, "find_generic_with_prices", "awaitSearch")
  /\ \E resp \in Responses : ToolStep(r, FgpOnSearch(tools[r], resp), resp, "vocab")

FgpRelatedReturns(r, Responses) ==
  /\ ToolAt(r, "find_generic_with_prices", "awaitRelated")
  /\ \E resp \in Responses : ToolStep(r, FgpOnRelated(tools[r], resp), resp, "vocab")

FgpGroundReturns(r, Responses) ==
  /\ ToolAt(r, "find_generic_with_prices", "awaitGround")
  /\ \E g \in Responses : ToolStep(r, FgpOnGround(tools[r], g), g, "ground")

SearchMedicineReturns(r, Responses) ==
  /\ ToolAt(r, "search_medicine", "awaitSearch")
  /\ \E resp \in Responses : ToolStep(r, SearchMedicineOnSearch(tools[r], resp), resp, "vocab")

DetailsReturns(r, Responses) ==
  /\ ToolAt(r, "get_medicine_details", "awaitRelated")
  /\ \E resp \in Responses : ToolStep(r, DetailsOnRelated(tools[r], resp), resp, "vocab")

EquivalentSearchReturns(r, Responses) ==
  /\ ToolAt(r, "find_generic_equivalent", "awaitSearch")
  /\ \E resp \in Responses : ToolStep(r, EquivalentOnSearch(tools[r], resp), resp, "vocab")

EquivalentRelatedReturns(r, Responses) ==
  /\ ToolAt(r, "find_generic_equivalent", "awaitRelated")
  /\ \E resp \in Responses : ToolStep(r, EquivalentOnRelated(tools[r], resp), resp, "vocab")

DosagesReturns(r, Responses) ==
  /\ ToolAt(r, "get_available_dosages", "awaitSearch")
  /\ \E resp \in Responses : ToolStep(r, DosagesOnSearch(tools[r], resp), resp, "vocab")

WebSearchReturns(r, Responses) ==
  /\ ToolAt(r, "web_search_medicine", "awaitGround")
  /\ \E g \in Responses : ToolStep(r, WebSearchOnGround(tools[r], g), g, "ground")

IndiaSearchReturns(r, Responses) ==
  /\ ToolAt(r, "search_india_medicine", "awaitGround")
  /\ \E g \in Responses : ToolStep(r, IndiaSearchOnGround(tools[r], g), g, "ground")

\* --------------------------------------------------------- response sets
\* axios rejects after { timeout: 5000 } (lines 390, 415)
TimeoutError == VocabError("timeout of 5000ms exceeded")

VocabFaults == {VocabError("Request failed with status code 500"), VocabNoData, VocabNoGroup}

IngredientGroup == Group("IN", TRUE, Run("IN", 0, 1))
GenericGroup == Group("SCD", TRUE, Run("SCD", 0, 1))
BrandedGroup == Group("SBD", TRUE, Run("SBD", 0, 2))

\* a few name-search responses, the one of the Lipitor scenario among them
SmallSearch ==
  VocabFaults \cup
  {VocabGroups(gs) : gs \in {<<>>, <<IngredientGroup>>, <<BrandedGroup>>,
                             <<Group("SCD", TRUE, <<>>)>>, <<Group("SBD", FALSE, <<>>)>>,
                             <<IngredientGroup, GenericGroup, BrandedGroup>>}}

\* a few allrelated responses
SmallRelated ==
  VocabFaults \cup
  {VocabGroups(gs) : gs \in {<<>>, <<Group("IN", TRUE, <<>>)>>,
                             <<Group("IN", TRUE, Run("IN", 1, 1)), GenericGroup,
                               Group("BN", TRUE, Run("BN", 0, 2)),
                               Group("DF", TRUE, Run("DF", 0, 1))>>,
                             <<GenericGroup, Group("BN", TRUE, Run("BN", 0, MaxRelatedProps))>>}}

\* a few grounding outcomes
SmallGround ==
  {GroundError("quota exceeded"), GroundOk("prices in INR", Null),
   GroundOk("prices in INR", Metadata(FALSE, <<>>, FALSE, <<>>)),
   GroundOk("prices in INR",
            Metadata(TRUE, <<Chunk(1, TRUE), Chunk(2, FALSE), Chunk(3, TRUE)>>,
                     TRUE, <<"lipitor price india">>))}

\* the tool invocations the reasoning backend may ask for
ToolStarts ==
  UNION {{FgpStart(m), SearchMedicineStart(m), EquivalentStart(m), DosagesStart(m),
          WebSearchStart(m), IndiaSearchStart(m)} : m \in MedicineNames}
    \cup {DetailsStart(Concept("SCD", 1).rxcui)}

\* ------------------------------------------------------------ specification
Next ==
  \E r \in {"r1"} :
    \/ \E body \in Bodies : Receive(r, body)
    \/ \E t0 \in ToolStarts : AgentCallsTool(r, t0)
    \/ \E out \in FinalOutputs : AgentFinishes(r, out)
    \/ AgentFails(r)
    \/ Respond200(r)
    \/ Respond500(r)
    \/ FgpSearchReturns(r, SmallSearch \cup {TimeoutError})
    \/ FgpRelatedReturns(r, SmallRelated \cup {TimeoutError})
    \/ FgpGroundReturns(r, SmallGround)
    \/ SearchMedicineReturns(r, SmallSearch)
    \/ DetailsReturns(r, SmallRelated)
    \/ EquivalentSearchReturns(r, SmallSearch)
    \/ EquivalentRelatedReturns(r, SmallRelated)
    \/ DosagesReturns(r, SmallSearch)
    \/ WebSearchReturns(r, SmallGround)
    \/ IndiaSearchReturns(r, SmallGround)

Spec == Init /\ [][Next]_vars

\* ------------------------------------------- the combined tool on richer data
\* The state in which the orchestrator of r1 has just invoked
\* find_generic_with_prices: Receive followed by AgentCallsTool.
InitFgp ==
  /\ requests = [r \in AllRequests |->
                   IF r = "r1"
                   THEN [pc |-> "awaitMain", body |-> [hasQuery |-> TRUE, query |-> "Lipitor 20mg"],
                         response |-> Null, sent |-> 0]
                   ELSE [pc |-> "none", body |-> Null, response |-> Null, sent |-> 0]]
  /\ runs = [r \in AllRequests |->
               IF r = "r1" THEN [pc |-> "tool", turns |-> 1, finalOutput |-> ""] ELSE IdleRun]
  /\ \E m \in MedicineNames :
       tools = [r \in AllRequests |-> IF r = "r1" THEN FgpStart(m) ELSE Null]
  /\ outbound = [r \in AllRequests |->
                   IF r = "r1" THEN [NoCalls EXCEPT !.run = 1, !.llm = 1, !.vocab = 1]
                   ELSE NoCalls]

\* every name-search response of up to MaxSearchGroups groups
RichSearch ==
  VocabFaults \cup {TimeoutError} \cup
  {VocabGroups(gs) :
     gs \in SeqsUpTo(GroupsOver({"IN", "SCD", "SBD"}, {0, 1}, {0, 1, MaxSearchProps}),
                     MaxSearchGroups)}

\* every allrelated response of up to MaxRelatedGroups groups
RichRelated ==
  VocabFaults \cup {TimeoutError} \cup
  {VocabGroups(gs) :
     gs \in SeqsUpTo(GroupsOver(TTYs, {0, 1}, {0, 1, MaxRelatedProps})
                       \cup {Group("IN", TRUE, <<Nameless("IN")>>)},
                     MaxRelatedGroups)}

\* every grounding outcome with up to MaxChunks chunks
RichGround ==
  {GroundError("quota exceeded"), GroundOk("prices in INR", Null),
   GroundOk("prices in INR", Metadata(FALSE, <<>>, FALSE, <<>>))}
    \cup {GroundOk("prices in INR", Metadata(TRUE, cs, TRUE, <<"lipitor price india">>)) :
            cs \in ChunkLists(MaxChunks)}

LipitorSearch == VocabGroups(<<IngredientGroup, GenericGroup, BrandedGroup>>)

TinyGround == {GroundError("quota exceeded"), GroundOk("prices in INR", Null)}

\* the outcomes of the allrelated request that differ for the ingredient
TinyRelated ==
  {TimeoutError, VocabNoGroup, VocabGroups(<<GenericGroup>>),
   VocabGroups(<<IngredientGroup, GenericGroup>>),
   VocabGroups(<<Group("IN", TRUE, Run("IN", 1, 1)), GenericGroup>>)}

\* name-search responses of up to MaxEquivalentGroups groups, in every order
\* of the group types
EquivalentSearch ==
  VocabFaults \cup
  {VocabGroups(gs) :
     gs \in SeqsUpTo(GroupsOver({"IN", "SCD", "SBD"}, {0, 1}, {0, 1}),
                     MaxEquivalentGroups)}

\* The state in which the orchestrator of r1 has just invoked one of the two
\* tools that resolve a name in two requests.
InitResolver ==
  \/ InitFgp
  \/ /\ requests = [r \in AllRequests |->
                      IF r = "r1"
                      THEN [pc |-> "awaitMain",
                            body |-> [hasQuery |-> TRUE, query |-> "Lipitor 20mg"],
                            response |-> Null, sent |-> 0]
                      ELSE [pc |-> "none", body |-> Null, response |-> Null, sent |-> 0]]
     /\ runs = [r \in AllRequests |->
                  IF r = "r1" THEN [pc |-> "tool", turns |-> 1, finalOutput |-> ""]
                  ELSE IdleRun]
     /\ \E m \in MedicineNames :
          tools = [r \in AllRequests |-> IF r = "r1" THEN EquivalentStart(m) ELSE Null]
     /\ outbound = [r \in AllRequests |->
                      IF r = "r1" THEN [NoCalls EXCEPT !.run = 1, !.llm = 1, !.vocab = 1]
                      ELSE NoCalls]

NextResolver ==
  \/ FgpSearchReturns("r1", RichSearch)
  \/ FgpRelatedReturns("r1", TinyRelated)
  \/ FgpGroundReturns("r1", {GroundOk("prices in INR", Null)})
  \/ EquivalentSearchReturns("r1", EquivalentSearch)
  \/ EquivalentRelatedReturns("r1", TinyRelated \ {TimeoutError})

SpecResolver == InitResolver /\ [][NextResolver]_vars

NextRelated ==
  \/ FgpSearchReturns("r1", {LipitorSearch, VocabGroups(<<BrandedGroup>>),
                             VocabGroups(<<IngredientGroup>>), VocabNoGroup, TimeoutError})
  \/ FgpRelatedReturns("r1", RichRelated)
  \/ FgpGroundReturns("r1", TinyGround)

SpecRelated == InitFgp /\ [][NextRelated]_vars

NextCite ==
  \/ FgpSearchReturns("r1", {LipitorSearch, VocabNoGroup})
  \/ FgpRelatedReturns("r1", {TimeoutError, VocabGroups(<<IngredientGroup, GenericGroup>>)})
  \/ FgpGroundReturns("r1", RichGround)

SpecCite == InitFgp /\ [][NextCite]_vars

\* ------------------------------------------------------------------ claims
FalsyBody(body) == ~body.hasQuery \/ body.query = ""

\* C1: a request whose query is empty or missing is answered with 400
\* {error: "Query is required"}, and no orchestrator run, reasoning call,
\* vocabulary call or grounding call is ever made for it.
C1_EmptyQueryRejected ==
  \A r \in AllRequests :
    (requests[r].pc # "none" /\ FalsyBody(requests[r].body)) =>
      /\ requests[r].pc = "responded"
      /\ requests[r].response.status = 400
      /\ requests[r].response.body = [error |-> "Query is required"]
      /\ outbound[r].run = 0 /\ outbound[r].llm = 0
      /\ outbound[r].vocab = 0 /\ outbound[r].ground = 0
      /\ runs[r].pc = "idle" /\ tools[r] = Null

C1_Witness ==
  /\ requests["r1"].pc = "responded"
  /\ requests["r1"].body = [hasQuery |-> TRUE, query |-> ""]
  /\ requests["r1"].response.status = 400

\* C2: a request with a non-empty query starts exactly one orchestrator run;
\* no response is sent while the run is in progress, and the one response
\* sent is 200 {success: true, result: finalOutput} after the run returned
\* or 500 {success: false, error} after it threw.
C2_ForwardedOnceAnsweredOnce ==
  \A r \in AllRequests :
    (requests[r].pc # "none" /\ ~FalsyBody(requests[r].body)) =>
      /\ outbound[r].run = 1
      /\ requests[r].pc = "awaitMain" => requests[r].sent = 0 /\ requests[r].response = Null
      /\ requests[r].pc = "responded" =>
           /\ requests[r].sent = 1
           /\ runs[r].pc \in {"returned", "threw"}
           /\ runs[r].pc = "returned" =>
                /\ requests[r].response.status = 200
                /\ requests[r].response.body =
                     [success |-> TRUE, result |-> runs[r].finalOutput]
           /\ runs[r].pc = "threw" =>
                /\ requests[r].response.status = 500
                /\ requests[r].response.body.success = FALSE
                /\ requests[r].response.body.error # ""

C2_Witness ==
  /\ requests["r1"].pc = "responded"
  /\ requests["r1"].response.status = 200
  /\ runs["r1"].turns > 0
  /\ runs["r1"].finalOutput = "structured JSON"

IsFgp(r) == tools[r] # Null /\ tools[r].name = "find_generic_with_prices"

\* C3: the output of find_generic_with_prices always carries a non-null
\* indianPrices, whatever the vocabulary calls did, and the step in which the
\* grounding call settles (successfully or not) hands the apiData of the
\* vocabulary step to the output unchanged.
C3_SidesIndependent ==
  /\ [](\A r \in AllRequests :
          IsFgp(r) =>
            /\ tools[r].pc # "threw"
            /\ tools[r].pc = "returned" =>
                 /\ tools[r].ret.indianPrices # Null
                 /\ tools[r].ret.apiData = tools[r].result.apiData)
  /\ [][\A r \in AllRequests :
          (IsFgp(r) /\ tools[r].pc = "awaitGround" /\ tools'[r].pc # "awaitGround") =>
            /\ tools'[r].pc = "returned"
            /\ tools'[r].ret.apiData = tools[r].result.apiData
            /\ tools'[r].result.apiData = tools[r].result.apiData]_vars

C3_Witness ==
  /\ IsFgp("r1") /\ tools["r1"].pc = "returned"
  /\ tools["r1"].groundResponse.kind = "error"
  /\ tools["r1"].ret.apiData # Null
  /\ tools["r1"].ret.indianPrices = [error |-> "quota exceeded"]

\* C4: in find_generic_with_prices the name-search is the first call; the
\* grounding call is issued exactly once, as the last call, after every
\* vocabulary call of the execution has settled, and no outcome of the
\* vocabulary step ends the execution without it.
C4_ResolverThenGrounding ==
  \A r \in AllRequests :
    IsFgp(r) =>
      LET t == tools[r] IN
      /\ t.calls[1] = "search"
      /\ Count(t.calls, "search") = 1 /\ Count(t.calls, "related") <= 1
      /\ Count(t.calls, "ground") <= 1
      /\ t.pc \in {"awaitSearch", "awaitRelated"} => Count(t.calls, "ground") = 0
      /\ t.pc \in {"awaitGround", "returned", "threw"} =>
           /\ Count(t.calls, "ground") = 1
           /\ t.calls[Len(t.calls)] = "ground"
           /\ t.searchResponse # Null
           /\ Count(t.calls, "related") = 1 => t.relatedResponse # Null

C4_Witness ==
  /\ IsFgp("r1") /\ tools["r1"].pc = "returned"
  /\ tools["r1"].searchResponse.kind = "error"
  /\ tools["r1"].calls = <<"search", "ground">>

\* C5 as stated: whenever a vocabulary, grounding or reasoning-backend call
\* failed while the request was processed, the response is still a 200.
C5_AllFailuresAbsorbed ==
  \A r \in AllRequests :
    (requests[r].pc = "responded" /\ outbound[r].failed # {}) =>
      requests[r].response.status = 200

\* C5 amended: a 400 is sent only for a falsy query and a 500 only after the
\* orchestrator run rejected; a request during which only vocabulary or
\* grounding calls failed, and whose run returned, is answered with 200.
C5_OnlyRunRejectionIs500 ==
  \A r \in AllRequests :
    requests[r].pc = "responded" =>
      /\ requests[r].response.status \in {200, 400, 500}
      /\ requests[r].response.status = 400 <=> FalsyBody(requests[r].body)
      /\ requests[r].response.status = 500 <=> runs[r].pc = "threw"
      /\ (outbound[r].failed # {} /\ "llm" \notin outbound[r].failed) =>
           /\ requests[r].response.status = 200
           /\ requests[r].response.body.success = TRUE
      /\ "llm" \in outbound[r].failed => requests[r].response.status = 500

C5_Witness ==
  /\ requests["r1"].pc = "responded"
  /\ outbound["r1"].failed = {"vocab", "ground"}
  /\ requests["r1"].response.status = 200

ResolvingTools ==
  {"search_medicine", "find_generic_equivalent", "get_available_dosages",
   "find_generic_with_prices"}

\* The name-search of the tool execution of r returned no concept group.
NoConceptGroup(r) ==
  /\ tools[r] # Null
  /\ tools[r].name \in ResolvingTools
  /\ tools[r].searchResponse # Null
  /\ tools[r].searchResponse.kind = "nogroup"

\* C6 as stated: every resolving tool answers a name-search without concept
\* group with a failure that carries a non-empty suggestion, without throwing.
C6_SuggestionInEveryTool ==
  \A r \in AllRequests :
    (NoConceptGroup(r) /\ tools[r].pc \in {"returned", "threw"}) =>
      /\ tools[r].pc = "returned"
      /\ tools[r].ret.success = FALSE
      /\ "suggestion" \in DOMAIN tools[r].ret
      /\ tools[r].ret.suggestion # ""

\* C6 amended: after a name-search without concept group no tool throws;
\* search_medicine returns success: false with a message and a non-empty
\* suggestion; find_generic_equivalent and get_available_dosages return
\* success: false with a message and no suggestion; find_generic_with_prices
\* goes on to the grounding call and returns success: true with apiData null.
C6_NotFoundPerTool ==
  \A r \in AllRequests :
    NoConceptGroup(r) =>
      LET t == tools[r] IN
      /\ t.pc # "threw"
      /\ t.name = "search_medicine" =>
           /\ t.pc = "returned" /\ t.ret.success = FALSE
           /\ DOMAIN t.ret = {"success", "message", "suggestion"}
           /\ t.ret.message # "" /\ t.ret.suggestion # ""
      /\ t.name \in {"find_generic_equivalent", "get_available_dosages"} =>
           /\ t.pc = "returned" /\ t.ret.success = FALSE
           /\ DOMAIN t.ret = {"success", "message"}
           /\ t.ret.message # ""
      /\ t.name = "find_generic_with_prices" =>
           /\ t.pc \in {"awaitGround", "returned"}
           /\ t.result.apiData = Null
           /\ t.pc = "returned" =>
                /\ t.ret.success = TRUE /\ t.ret.apiData = Null
                /\ "suggestion" \notin DOMAIN t.ret

C6_Witness ==
  /\ NoConceptGroup("r1")
  /\ tools["r1"].name = "search_medicine"
  /\ tools["r1"].pc = "returned"
  /\ tools["r1"].ret.suggestion # ""

\* A settled call of the tool execution t failed: rejected, answered without
\* a body, or answered without a concept list.
Failed(resp) == resp # Null /\ resp.kind \in {"error", "nodata", "nogroup"}

HasField(t, f) == f \in DOMAIN t

VocabFailed(t) ==
  \/ HasField(t, "searchResponse") /\ Failed(t.searchResponse)
  \/ HasField(t, "relatedResponse") /\ Failed(t.relatedResponse)

GroundFailed(t) == HasField(t, "groundResponse") /\ Failed(t.groundResponse)

\* success: false together with a non-empty error or message
FailureResult(ret) ==
  /\ ret.success = FALSE
  /\ \/ HasField(ret, "error") /\ ret.error # ""
     \/ HasField(ret, "message") /\ ret.message # ""

\* C7: no tool execution ever ends by throwing, and a returned execution in
\* which an outbound call failed carries a failure marker: success: false
\* with an error or a message in the granular tools (a null genericVersion
\* when only the related concepts of find_generic_equivalent are missing),
\* a null apiData or an indianPrices {error} in find_generic_with_prices.
C7_NoThrowPastToolBoundary ==
  \A r \in AllRequests :
    tools[r] # Null =>
      LET t == tools[r] IN
      /\ t.pc # "threw"
      /\ (t.pc = "returned" /\ t.name = "find_generic_with_prices") =>
           /\ VocabFailed(t) => t.ret.apiData = Null
           /\ GroundFailed(t) => t.ret.indianPrices = [error |-> t.groundResponse.message]
      /\ (t.pc = "returned" /\ t.name = "find_generic_equivalent"
            /\ (VocabFailed(t) \/ GroundFailed(t))) =>
           \/ FailureResult(t.ret)
           \/ /\ t.relatedResponse # Null /\ t.relatedResponse.kind = "nogroup"
              /\ t.ret.data.genericVersion = Null /\ t.ret.data.activeIngredient = Null
      /\ (t.pc = "returned" /\ (VocabFailed(t) \/ GroundFailed(t))
            /\ t.name \notin {"find_generic_with_prices", "find_generic_equivalent"}) =>
           FailureResult(t.ret)

C7_Witness ==
  /\ tools["r1"] # Null
  /\ tools["r1"].name = "get_medicine_details"
  /\ tools["r1"].pc = "returned"
  /\ tools["r1"].relatedResponse.kind = "nodata"
  /\ tools["r1"].ret.success = FALSE

\* The concepts of type tty in a response, in upstream order.
RECURSIVE ConceptsOfType(_, _)
ConceptsOfType(groups, tty) ==
  IF groups = <<>> THEN <<>>
  ELSE (IF Head(groups).tty = tty /\ Head(groups).hasProps
        THEN Head(groups).conceptProperties ELSE <<>>)
       \o ConceptsOfType(Tail(groups), tty)

\* The name-search returned one ingredient, one generic formulation and two
\* branded formulations.
OneIngredientScenario(resp) ==
  /\ resp # Null /\ resp.kind = "groups"
  /\ Len(ConceptsOfType(resp.conceptGroup, "IN")) = 1
  /\ Len(ConceptsOfType(resp.conceptGroup, "SCD")) = 1
  /\ Len(ConceptsOfType(resp.conceptGroup, "SBD")) = 2

\* C8 as stated: in that scenario the returned apiData.activeIngredient is
\* the name of the ingredient concept of the name-search, whatever the
\* allrelated request answered.
C8_IngredientFromSearch ==
  \A r \in AllRequests :
    (IsFgp(r) /\ tools[r].pc = "returned"
       /\ OneIngredientScenario(tools[r].searchResponse)) =>
      /\ tools[r].ret.apiData # Null
      /\ tools[r].ret.apiData.activeIngredient =
           ConceptsOfType(tools[r].searchResponse.conceptGroup, "IN")[1].name

\* C9: brandNames of the resolver step never has more than 5 entries, and
\* it is a prefix of the concept names of one brand-name or
\* branded-formulation group of the allrelated response, in upstream order;
\* none of its entries is the name of an ingredient, generic-formulation or
\* dose-form concept.
C9_BrandNamesCappedAndBranded ==
  \A r \in AllRequests :
    (IsFgp(r) /\ tools[r].result.apiData # Null) =>
      LET brandNames == tools[r].result.apiData.brandNames
          groups == tools[r].relatedResponse.conceptGroup IN
      /\ Len(brandNames) <= 5
      /\ \A k \in DOMAIN brandNames : brandNames[k].text \in {"BN", "SBD"}
      /\ \/ brandNames = <<>>
         \/ \E i \in DOMAIN groups :
              /\ groups[i].tty \in {"BN", "SBD"} /\ groups[i].hasProps
              /\ Len(brandNames) <= Len(groups[i].conceptProperties)
              /\ \A k \in DOMAIN brandNames :
                   brandNames[k] = groups[i].conceptProperties[k].name

C9_Witness ==
  /\ IsFgp("r1") /\ tools["r1"].pc = "returned"
  /\ tools["r1"].ret.apiData # Null
  /\ Len(tools["r1"].ret.apiData.brandNames) = 5
  /\ \E i \in DOMAIN tools["r1"].relatedResponse.conceptGroup :
       /\ tools["r1"].relatedResponse.conceptGroup[i].tty = "BN"
       /\ Len(tools["r1"].relatedResponse.conceptGroup[i].conceptProperties) > 5

\* The positions of the chunks that have a web field.
WebPositions(chunks) == {i \in DOMAIN chunks : chunks[i].web # Null}

ChunksOf(g) ==
  IF g.metadata # Null /\ g.metadata.hasChunks THEN g.metadata.groundingChunks ELSE <<>>

RECURSIVE FirstGroupOfType(_, _)
FirstGroupOfType(groups, tty) ==
  IF groups = <<>> THEN Null
  ELSE IF Head(groups).tty = tty /\ Head(groups).hasProps THEN Head(groups)
  ELSE FirstGroupOfType(Tail(groups), tty)

\* The name of the first concept of the first group of type tty, or Null.
FirstSeenName(groups, tty) ==
  LET g == FirstGroupOfType(groups, tty) IN
  IF g = Null \/ Len(g.conceptProperties) = 0 THEN Null
  ELSE g.conceptProperties[1].name

\* C11 as stated: activeIngredient, genericName and dosageForm of a resolved
\* apiData are each the name of the first concept of the first group of
\* their type in the allrelated response; a later group of the same type
\* never replaces the value taken from an earlier one.
C11_FirstSeenWins ==
  \A r \in AllRequests :
    (IsFgp(r) /\ tools[r].result.apiData # Null) =>
      LET groups == tools[r].relatedResponse.conceptGroup
          apiData == tools[r].result.apiData IN
      /\ apiData.activeIngredient = FirstSeenName(groups, "IN")
      /\ apiData.genericName = FirstSeenName(groups, "SCD")
      /\ apiData.dosageForm = FirstSeenName(groups, "DF")

TwoRequestTools == {"find_generic_with_prices", "find_generic_equivalent"}

\* The identifier the allrelated request of the tool execution t was made for.
RelatedTargetOf(t) ==
  IF t.name = "find_generic_with_prices" THEN t.targetRxcui ELSE t.target.rxcui

\* The identifiers of the concepts of type tty in a name-search response.
RxcuisOfType(resp, tty) ==
  {ConceptsOfType(resp.conceptGroup, tty)[i].rxcui :
     i \in DOMAIN ConceptsOfType(resp.conceptGroup, tty)}

\* The allrelated request is the second call, made at most once, after a
\* name-search response that carries a generic or branded formulation.
RelatedAfterSearch(t) ==
  /\ t.calls[1] = "search" /\ t.calls[2] = "related"
  /\ Count(t.calls, "related") = 1
  /\ t.searchResponse # Null /\ t.searchResponse.kind = "groups"
  /\ RxcuisOfType(t.searchResponse, "SCD") \cup RxcuisOfType(t.searchResponse, "SBD") # {}

\* C12 as stated: in both tools the allrelated request follows the
\* name-search response, is made at most once and only when that response
\* carries a generic or branded formulation, for the identifier of a generic
\* formulation of the search when there is one and of a branded one otherwise.
C12_RelatedForGenericFirst ==
  \A r \in AllRequests :
    (tools[r] # Null /\ tools[r].name \in TwoRequestTools) =>
      LET t == tools[r] IN
      /\ Count(t.calls, "related") <= 1
      /\ t.pc = "awaitSearch" => Count(t.calls, "related") = 0
      /\ Count(t.calls, "related") = 1 =>
           /\ RelatedAfterSearch(t)
           /\ RelatedTargetOf(t) \in
                (IF RxcuisOfType(t.searchResponse, "SCD") # {}
                 THEN RxcuisOfType(t.searchResponse, "SCD")
                 ELSE RxcuisOfType(t.searchResponse, "SBD"))

\* The first concept of the first group that is a generic or a branded
\* formulation and carries conceptProperties.
RECURSIVE FirstFormulation(_)
FirstFormulation(groups) ==
  IF groups = <<>> THEN Null
  ELSE IF Head(groups).hasProps /\ Head(groups).tty \in {"SCD", "SBD"}
       THEN First(Head(groups).conceptProperties)
       ELSE FirstFormulation(Tail(groups))

\* C12 amended: as stated for find_generic_with_prices; in
\* find_generic_equivalent the identifier is that of the first concept of the
\* first generic-or-branded group in upstream order, whichever type it has.
C12_RelatedForSearchedConcept ==
  \A r \in AllRequests :
    (tools[r] # Null /\ tools[r].name \in TwoRequestTools) =>
      LET t == tools[r] IN
      /\ Count(t.calls, "related") <= 1
      /\ t.pc = "awaitSearch" => Count(t.calls, "related") = 0
      /\ Count(t.calls, "related") = 1 =>
           /\ RelatedAfterSearch(t)
           /\ t.name = "find_generic_with_prices" =>
                RelatedTargetOf(t) \in
                  (IF RxcuisOfType(t.searchResponse, "SCD") # {}
                   THEN RxcuisOfType(t.searchResponse, "SCD")
                   ELSE RxcuisOfType(t.searchResponse, "SBD"))
           /\ t.name = "find_generic_equivalent" =>
                /\ FirstFormulation(t.searchResponse.conceptGroup) # Null
                /\ RelatedTargetOf(t) =
                     FirstFormulation(t.searchResponse.conceptGroup).rxcui

C12_Witness ==
  /\ tools["r1"] # Null /\ tools["r1"].name = "find_generic_equivalent"
  /\ tools["r1"].pc = "awaitRelated"
  /\ RxcuisOfType(tools["r1"].searchResponse, "SCD") # {}
  /\ RelatedTargetOf(tools["r1"]) \in RxcuisOfType(tools["r1"].searchResponse, "SBD")

\* The axios timer of { timeout: 5000 } settles the two vocabulary calls of
\* find_generic_with_prices even when the service never answers; the calls of
\* the other tools are made without a timeout and nothing forces them to settle.
SpecTimeouts ==
  /\ Init
  /\ [][Next]_vars
  /\ WF_vars(FgpSearchReturns("r1", SmallSearch \cup {TimeoutError}))
  /\ WF_vars(FgpRelatedReturns("r1", SmallRelated \cup {TimeoutError}))

\* The tool execution of r is suspended at a vocabulary request.
AwaitingVocabulary(r) ==
  tools[r] # Null /\ tools[r].pc \in {"awaitSearch", "awaitRelated"}

\* C13: a tool suspended at a vocabulary request always eventually proceeds
\* or returns, in every tool that issues one.
C13_VocabularyCallsEnd ==
  \A r \in AllRequests : AwaitingVocabulary(r) ~> ~AwaitingVocabulary(r)

\* ---------------------------------------------------- concurrent requests
\* Two requests served at once: their handlers, runs and executions of
\* find_generic_with_prices interleave at every await.
NextConcurrent ==
  \E r \in AllRequests :
    \/ \E body \in Bodies : Receive(r, body)
    \/ /\ requests[r].pc = "awaitMain"
       /\ AgentCallsTool(r, FgpStart(QueryArg(requests[r].body)))
    \/ AgentFinishes(r, "structured JSON")
    \/ AgentFails(r)
    \/ Respond200(r)
    \/ Respond500(r)
    \/ FgpSearchReturns(r, {LipitorSearch, TimeoutError})
    \/ FgpRelatedReturns(r, {TimeoutError, VocabGroups(<<IngredientGroup, GenericGroup>>)})
    \/ FgpGroundReturns(r, TinyGround)

SpecConcurrent == Init /\ [][NextConcurrent]_vars

\* Everything the program holds for request r.
StateOf(r) == <<requests[r], runs[r], tools[r], outbound[r]>>

\* apiData as the allrelated response of the execution t alone determines it
OwnApiData(t) ==
  IF t.relatedResponse = Null \/ t.relatedResponse.kind # "groups" THEN Null
  ELSE LET scan == ScanRelated(t.relatedResponse.conceptGroup, EmptyApiResult) IN
       IF scan.threw THEN Null ELSE scan.apiResult

\* C14: a step taken for one request changes nothing held for another, and
\* what a request returns is determined by its own inputs: the CombinedFinding
\* by the medicine name and the upstream responses of its own execution, the
\* HTTP response by its own query and the final output of its own run.
C14_RequestsIsolated ==
  /\ [][\A r1, r2 \in AllRequests :
          (r1 # r2 /\ StateOf(r1)' # StateOf(r1)) => StateOf(r2)' = StateOf(r2)]_vars
  /\ [](\A r \in AllRequests :
          /\ (IsFgp(r) /\ tools[r].pc = "returned") =>
               /\ tools[r].ret.medicine = tools[r].medicineName
               /\ tools[r].ret.apiData = OwnApiData(tools[r])
               /\ tools[r].ret.indianPrices = IndianPricesOf(tools[r].groundResponse)
          /\ IsFgp(r) => tools[r].medicineName = requests[r].body.query
          /\ requests[r].pc = "responded" =>
               requests[r].response =
                 IF FalsyBody(requests[r].body) THEN BadRequest
                 ELSE IF runs[r].pc = "threw" THEN InternalError
                 ELSE Ok(runs[r].finalOutput))

\* both requests got a finding while the other was in flight, built from
\* different upstream responses
C14_Witness ==
  /\ IsFgp("r1") /\ IsFgp("r2")
  /\ tools["r1"].pc = "returned" /\ tools["r2"].pc = "returned"
  /\ tools["r1"].medicineName # tools["r2"].medicineName
  /\ tools["r1"].ret.apiData # Null /\ tools["r2"].ret.apiData = Null
  /\ tools["r1"].ret.indianPrices # tools["r2"].ret.indianPrices

\* C15: the salt named in the grounding prompt is the active ingredient when
\* the resolver step left an apiData with a non-empty activeIngredient and the
\* medicine name in every other case, so that every grounding call is made
\* with a defined salt and a defined medicine name.
C15_SaltIsIngredientOrName ==
  \A r \in AllRequests :
    IsFgp(r) =>
      LET t == tools[r]
          a == t.result.apiData
          name == [text |-> t.medicineName, no |-> 0] IN
      /\ Count(t.calls, "ground") = 0 => t.prompt = Null
      /\ Count(t.calls, "ground") > 0 =>
           /\ t.prompt # Null
           /\ t.prompt.medicineName = t.medicineName
           /\ t.prompt.saltName.value # Null /\ t.prompt.saltName.value # EmptyName
           /\ t.prompt.saltName.value =
                (IF a # Null /\ a.activeIngredient # Null /\ a.activeIngredient # EmptyName
                 THEN a.activeIngredient ELSE name)
           /\ a = OwnApiData(t)

\* the grounding call is pending with the salt taken from the resolved ingredient
C15_Witness ==
  /\ IsFgp("r1") /\ tools["r1"].pc = "awaitGround"
  /\ tools["r1"].result.apiData # Null
  /\ tools["r1"].result.apiData.activeIngredient = Concept("IN", 1).name
  /\ tools["r1"].prompt.saltName.value = Concept("IN", 1).name

\* Reading conceptProperties[0].name raises on a group of one of the three
\* single-valued types whose conceptProperties is an empty array.
ScanRaises(groups) ==
  \E i \in DOMAIN groups :
    /\ groups[i].hasProps
    /\ groups[i].tty \in {"IN", "SCD", "DF"}
    /\ groups[i].conceptProperties = <<>>

\* whether the response lists a group of type tty with conceptProperties
ListsType(groups, tty) ==
  \E i \in DOMAIN groups : groups[i].hasProps /\ groups[i].tty = tty

\* The name-search found a formulation, the allrelated request was answered
\* with a concept group, and its scan ran to the end.
ResolvedCompletely(t) ==
  /\ t.searchResponse # Null /\ t.searchResponse.kind = "groups"
  /\ RxcuisOfType(t.searchResponse, "SCD") \cup RxcuisOfType(t.searchResponse, "SBD") # {}
  /\ t.relatedResponse # Null /\ t.relatedResponse.kind = "groups"
  /\ ~ScanRaises(t.relatedResponse.conceptGroup)

\* C16: apiData is non-null exactly when the name-search returned a generic
\* or branded formulation, the allrelated request succeeded with a concept
\* group and its scan raised nothing; it then carries all four fields, each
\* filled when the response lists its type; otherwise it is null, also when
\* the scan raised part-way, and the returned finding carries it unchanged.
C16_ApiDataAllOrNothing ==
  \A r \in AllRequests :
    IsFgp(r) =>
      LET t == tools[r]
          a == t.result.apiData IN
      /\ a # Null <=> ResolvedCompletely(t)
      /\ a # Null =>
           LET groups == t.relatedResponse.conceptGroup IN
           /\ DOMAIN a = {"genericName", "brandNames", "activeIngredient", "dosageForm"}
           /\ a.activeIngredient # Null <=> ListsType(groups, "IN")
           /\ a.genericName # Null <=> ListsType(groups, "SCD")
           /\ a.dosageForm # Null <=> ListsType(groups, "DF")
           /\ a.brandNames # <<>> =>  ListsType(groups, "BN")
      /\ t.pc = "returned" => t.ret.apiData = a

\* the scan filled the ingredient and then raised on an empty group: the
\* finding is returned without apiData
C16_Witness ==
  /\ IsFgp("r1") /\ tools["r1"].pc = "returned"
  /\ tools["r1"].relatedResponse # Null
  /\ tools["r1"].relatedResponse.kind = "groups"
  /\ Len(tools["r1"].relatedResponse.conceptGroup) = 2
  /\ tools["r1"].relatedResponse.conceptGroup[1] = Group("IN", TRUE, Run("IN", 0, 1))
  /\ tools["r1"].relatedResponse.conceptGroup[2] = Group("SCD", TRUE, <<>>)
  /\ tools["r1"].ret.apiData = Null

====
